---- MODULE Spec2Model ----
(***************************************************************************)
(* caos: a single-writer, multi-reader, append-only sequence kept as a     *)
(* chain of fixed-capacity segments (src/src/lib.rs).                      *)
(*                                                                         *)
(* The heap is an arena: a sequence of Segment records, a pointer is an    *)
(* index into it and NULL is 0.  Every SeqCst load, store and fetch_add of *)
(* the source is one step of the thread that makes it, so the interleaved  *)
(* specification Spec explores every order of the writer's and a reader's  *)
(* atomic accesses.  The reads of a slice's slots that follow a load with   *)
(* no other load in between belong to that load's step, an Iter's reads of  *)
(* its slice are steps of their own, and the writer's copy is one step.     *)
(* The same step operators, run to completion, give the whole calls of the  *)
(* sequential specifications SpecSeq and SpecMem.                           *)
(***************************************************************************)
EXTENDS Integers, Sequences, FiniteSets, TLC

\* Bounds of the model.
MaxCap == 2
MaxTotal == 4
MaxVal == 2
MaxReaders == 2
MaxIters == 1
MaxCalls == 3
MaxAlignExp == 7
MaxPartialCalls == 2

\* core::ptr::null
NULL == 0

\* const ALIGNMENT
ALIGNMENT == 64

VARIABLES
    segment_length,  \* the capacity given to new(), shared by Writer and Reader
    heap,            \* the arena of Segments: heap[p] is the segment at pointer p
    appended,        \* history: every value handed to append so far, in order
    w,               \* the Writer and the locals of its append call
    r,               \* a Reader thread: the call it is in, or the Iter it holds
    strong,          \* the strong count of Arc<DropGuard>
    handles,         \* the handles alive: the Writer, and the number of Readers
    iters,           \* the live Iters of SpecMem
    guard,           \* DropGuard::drop: its position in the chain walk
    calls,           \* history: the length of the slice of each append call made
    ctor             \* the call of new: the element's alignment, and how it ended

vars == <<segment_length, heap, appended, w, r, strong, handles, iters, guard,
          calls, ctor>>

None == <<>>
Some(x) == <<x>>

Min(a, b) == IF a < b THEN a ELSE b

Values == 1..MaxVal

\* The sequence of n zero bytes alloc_zeroed returns, read as elements.
Zeroed(n) == [i \in 1..n |-> 0]

first_segment == 1

(***************************************************************************)
(* Segment                                                                 *)
(***************************************************************************)

\* Segment::alloc: a zeroed buffer, len 0, next null.  buf_frees and
\* node_frees count the deallocations of the buffer and of the Box.
NewSegment(cap) ==
    [values |-> Zeroed(cap), len |-> 0, next |-> NULL,
     buf_frees |-> 0, node_frees |-> 0]

SegmentAlloc(hp, cap) == Append(hp, NewSegment(cap))

\* The number of successor links from segment `from` to segment s.
RECURSIVE ChainPos(_, _, _)
ChainPos(hp, from, s) ==
    IF from = s \/ from = NULL THEN 0
    ELSE 1 + ChainPos(hp, hp[from].next, s)

\* The logical index of slot pos (0-based) of segment s.
LogicalIndex(hp, cap, s, pos) == ChainPos(hp, first_segment, s) * cap + pos

\* The segments of the chain, from the head on.
RECURSIVE Chain(_, _)
Chain(hp, from) ==
    IF from = NULL THEN <<>> ELSE <<from>> \o Chain(hp, hp[from].next)

\* The logical sequence: each segment's occupied prefix, in chain order.
RECURSIVE Logical(_, _)
Logical(hp, from) ==
    IF from = NULL THEN <<>>
    ELSE SubSeq(hp[from].values, 1, hp[from].len) \o Logical(hp, hp[from].next)

(***************************************************************************)
(* Writer::append, one step per access to the shared segment               *)
(***************************************************************************)

WriterInit ==
    [pc |-> "idle", src |-> <<>>, segment |-> NULL, segment_len |-> 0,
     to_copy |-> 0, new_segment |-> NULL, tip_segment |-> first_segment]

\* A copy that forgets dst.add(segment_len) and writes at the buffer's start.
CopyAtStart(values, at, src, n) ==
    [i \in 1..Len(values) |-> IF i <= n THEN src[i] ELSE values[i]]

\* core::ptr::copy_nonoverlapping(src, dst.add(at), n) on a segment's buffer.
CopyNonoverlapping(values, at, src, n) ==
    [i \in 1..Len(values) |->
        IF at < i /\ i <= at + n THEN src[i - at] ELSE values[i]]

\* lines 191-193: the call's locals.
WCall(wr, values) ==
    [wr EXCEPT !.pc = "loop", !.src = values, !.segment = wr.tip_segment]

\* Only an empty segment is written into; a partially filled one is left.
WLoopOnlyEmpty(wr, hp, cap) ==
    IF Len(wr.src) = 0
    THEN [w |-> [wr EXCEPT !.pc = "idle", !.segment = NULL, !.segment_len = 0],
          heap |-> hp]
    ELSE LET segment_len == hp[wr.segment].len
         IN  [w |-> [wr EXCEPT !.segment_len = segment_len,
                               !.pc = IF segment_len = 0 THEN "copy" ELSE "next"],
              heap |-> hp]

\* lines 194-196: the loop test and the load of the segment's len.
WLoop(wr, hp, cap) ==
    IF Len(wr.src) = 0
    THEN [w |-> [wr EXCEPT !.pc = "idle", !.segment = NULL, !.segment_len = 0],
          heap |-> hp]
    ELSE LET segment_len == hp[wr.segment].len
         IN  [w |-> [wr EXCEPT !.segment_len = segment_len,
                               !.pc = IF segment_len < cap THEN "copy" ELSE "next"],
              heap |-> hp]

\* lines 197-201: copy what fits into the buffer, behind the occupied prefix.
WCopy(wr, hp, cap) ==
    LET to_copy == Min(Len(wr.src), cap - wr.segment_len)
    IN  [w |-> [wr EXCEPT !.pc = "publish", !.to_copy = to_copy,
                          !.src = SubSeq(wr.src, to_copy + 1, Len(wr.src))],
         heap |-> [hp EXCEPT ![wr.segment].values =
                      CopyNonoverlapping(@, wr.segment_len, wr.src, to_copy)]]

\* The whole buffer is published, whatever was copied.
WPublishWhole(wr, hp, cap) ==
    [w |-> [wr EXCEPT !.pc = "loop", !.to_copy = 0, !.segment_len = 0],
     heap |-> [hp EXCEPT ![wr.segment].len = cap]]

\* line 202: segment.len.fetch_add(to_copy).
WPublish(wr, hp, cap) ==
    [w |-> [wr EXCEPT !.pc = "loop", !.to_copy = 0, !.segment_len = 0],
     heap |-> [hp EXCEPT ![wr.segment].len = @ + wr.to_copy]]

\* A full segment always gets a new successor, linked or not.
WNextAlwaysAlloc(wr, hp, cap) ==
    [w |-> [wr EXCEPT !.pc = "alloc", !.segment_len = 0], heap |-> hp]

\* lines 204-206: the load of next, and the move to a linked successor.
WNext(wr, hp, cap) ==
    LET next == hp[wr.segment].next
    IN  IF next # NULL
        THEN [w |-> [wr EXCEPT !.pc = "loop", !.segment = next, !.segment_len = 0],
              heap |-> hp]
        ELSE [w |-> [wr EXCEPT !.pc = "alloc", !.segment_len = 0], heap |-> hp]

\* line 208: Segment::alloc; the new segment is not yet reachable.
WAlloc(wr, hp, cap) ==
    [w |-> [wr EXCEPT !.pc = "link", !.new_segment = Len(hp) + 1],
     heap |-> SegmentAlloc(hp, cap)]

\* The new segment is stored into the head's next instead of the tip's.
WLinkAtHead(wr, hp, cap) ==
    [w |-> [wr EXCEPT !.pc = "loop", !.segment = wr.new_segment,
                      !.new_segment = NULL],
     heap |-> [hp EXCEPT ![first_segment].next = wr.new_segment]]

\* lines 209-210: segment.next.store(new_segment), and the move to it.
WLink(wr, hp, cap) ==
    [w |-> [wr EXCEPT !.pc = "loop", !.segment = wr.new_segment,
                      !.new_segment = NULL],
     heap |-> [hp EXCEPT ![wr.segment].next = wr.new_segment]]

\* One step of an append call in progress.
WStep(wr, hp, cap) ==
    CASE wr.pc = "loop" -> WLoop(wr, hp, cap)
      [] wr.pc = "copy" -> WCopy(wr, hp, cap)
      [] wr.pc = "publish" -> WPublish(wr, hp, cap)
      [] wr.pc = "next" -> WNext(wr, hp, cap)
      [] wr.pc = "alloc" -> WAlloc(wr, hp, cap)
      [] wr.pc = "link" -> WLink(wr, hp, cap)

\* A whole append call: its steps, run until it returns.
RECURSIVE WRun(_, _)
WRun(st, cap) ==
    IF st.w.pc = "idle" THEN st ELSE WRun(WStep(st.w, st.heap, cap), cap)

append(wr, hp, cap, values) == WRun([w |-> WCall(wr, values), heap |-> hp], cap)

(***************************************************************************)
(* Reader and Iter, one step per load of a segment's len or next           *)
(***************************************************************************)

\* op and pc say which call the thread is in and where; segment, offset and
\* hops are the locals of the Reader's calls; inner_seg, inner_pos and
\* inner_end are Iter.inner, the slice [inner_pos, inner_end) of segment
\* inner_seg; next is Iter.next.  History: n counts the elements the Iter
\* has yielded, ylog is the logical index of the slot the last one was read
\* from, ended says that next() has returned None, ok that every slot read so
\* far lay below the len loaded from its segment and held the value appended
\* at its logical index, and start_none that, when the call began, no
\* published element exceeded key (next_position) or none was published
\* (last), and out is what a consumer of the Iter has collected.
ReaderInit ==
    [op |-> "none", pc |-> "done", key |-> 0, segment |-> NULL, offset |-> 0,
     hops |-> 0, inner_seg |-> NULL, inner_pos |-> 0, inner_end |-> 0,
     next |-> NULL, result |-> None, n |-> 0, ylog |-> 0, ended |-> FALSE,
     ok |-> TRUE, start_none |-> FALSE, out |-> <<>>]

\* Slot pos of segment s, read through a slice of length len.
ReadOk(hp, cap, app, s, pos, len) ==
    /\ pos < len
    /\ LogicalIndex(hp, cap, s, pos) < Len(app)
    /\ hp[s].values[pos + 1] = app[LogicalIndex(hp, cap, s, pos) + 1]

AllOk(hp, cap, app, s, len) ==
    \A pos \in 0..(len - 1) : ReadOk(hp, cap, app, s, pos, len)

\* ---- Reader::last ----

\* line 56
RLastCall(rd, hp) ==
    [ReaderInit EXCEPT !.op = "last", !.pc = "last_next",
                       !.segment = first_segment,
                       !.start_none = (Logical(hp, first_segment) = <<>>)]

\* A last() that reads the head segment without walking the chain.
RLastNextAtHead(rd, hp, cap, app) == [rd EXCEPT !.pc = "last_len"]

\* lines 60-63, 71: the load of next; the walk goes on while it is non-null.
RLastNext(rd, hp, cap, app) ==
    LET next == hp[rd.segment].next
    IN  IF next = NULL THEN [rd EXCEPT !.pc = "last_len"]
        ELSE [rd EXCEPT !.segment = next]

\* A last() that waits at an empty tail for the writer to fill it.
RLastLenSpin(rd, hp, cap, app) ==
    LET len == hp[rd.segment].len
    IN  IF len = 0
        THEN rd
        ELSE [rd EXCEPT !.pc = "done", !.segment = NULL,
                        !.result = Some(hp[rd.segment].values[len]),
                        !.ylog = LogicalIndex(hp, cap, rd.segment, len - 1),
                        !.ok = ReadOk(hp, cap, app, rd.segment, len - 1, len)]

\* lines 64-68: the load of len, and the last element of the slice.
RLastLen(rd, hp, cap, app) ==
    LET len == hp[rd.segment].len
    IN  IF len = 0
        THEN [rd EXCEPT !.pc = "done", !.segment = NULL, !.result = None]
        ELSE [rd EXCEPT !.pc = "done", !.segment = NULL,
                        !.result = Some(hp[rd.segment].values[len]),
                        !.ylog = LogicalIndex(hp, cap, rd.segment, len - 1),
                        !.ok = ReadOk(hp, cap, app, rd.segment, len - 1, len)]

\* ---- Reader::iter_from ----

\* lines 77-79
RIterFromCall(rd, index, cap) ==
    [ReaderInit EXCEPT !.op = "iter", !.key = index, !.segment = first_segment,
                       !.offset = index, !.hops = index \div cap,
                       !.pc = IF index \div cap > 0 THEN "if_hop" ELSE "if_len"]

\* A turn of the loop that forgets offset -= segment_length.
RIterHopKeepOffset(rd, hp, cap, app) ==
    LET segment == hp[rd.segment].next
    IN  IF segment = NULL
        THEN [rd EXCEPT !.pc = "it_idle", !.segment = NULL, !.offset = 0,
                        !.hops = 0, !.inner_seg = NULL, !.inner_pos = 0,
                        !.inner_end = 0, !.next = NULL]
        ELSE [rd EXCEPT !.segment = segment, !.hops = rd.hops - 1,
                        !.pc = IF rd.hops - 1 > 0 THEN "if_hop" ELSE "if_len"]

\* lines 80-93: one turn of the for loop.
RIterHop(rd, hp, cap, app) ==
    LET segment == hp[rd.segment].next
    IN  IF segment = NULL
        THEN [rd EXCEPT !.pc = "it_idle", !.segment = NULL, !.offset = 0,
                        !.hops = 0, !.inner_seg = NULL, !.inner_pos = 0,
                        !.inner_end = 0, !.next = NULL]
        ELSE [rd EXCEPT !.segment = segment, !.offset = rd.offset - cap,
                        !.hops = rd.hops - 1,
                        !.pc = IF rd.hops - 1 > 0 THEN "if_hop" ELSE "if_len"]

\* lines 97-102: the load of len and the first slice.
RIterLen(rd, hp, cap, app) ==
    LET len == hp[rd.segment].len
        offset == Min(rd.offset, len)
    IN  [rd EXCEPT !.pc = "if_next", !.offset = 0, !.inner_seg = rd.segment,
                   !.inner_pos = offset, !.inner_end = len]

\* lines 104-108: the load of next; the Iter is built.
RIterNext(rd, hp, cap, app) ==
    [rd EXCEPT !.pc = "it_idle", !.segment = NULL,
               !.next = hp[rd.segment].next]

\* ---- Iter::next ----

\* self.inner.next(): the next element of the slice, or None.
InnerNext(rd, hp, cap, app) ==
    IF rd.inner_pos < rd.inner_end
    THEN [rd EXCEPT !.pc = "it_idle", !.inner_pos = rd.inner_pos + 1,
                    !.result = Some(hp[rd.inner_seg].values[rd.inner_pos + 1]),
                    !.n = rd.n + 1,
                    !.ylog = LogicalIndex(hp, cap, rd.inner_seg, rd.inner_pos),
                    !.ok = rd.ok /\ ReadOk(hp, cap, app, rd.inner_seg,
                                           rd.inner_pos, rd.inner_end)]
    ELSE [rd EXCEPT !.pc = "it_idle", !.result = None, !.ended = TRUE]

\* lines 23-29: an element of the current slice, or None at a null next.
ItCall(rd, hp, cap, app) ==
    IF rd.inner_pos < rd.inner_end THEN InnerNext(rd, hp, cap, app)
    ELSE IF rd.next = NULL
         THEN [rd EXCEPT !.pc = "it_idle", !.result = None, !.ended = TRUE]
         ELSE [rd EXCEPT !.pc = "it_len"]

\* lines 32-34: the load of the next segment's len, and the slice over it.
ItLen(rd, hp, cap, app) ==
    [rd EXCEPT !.pc = "it_nx", !.inner_seg = rd.next, !.inner_pos = 0,
               !.inner_end = hp[rd.next].len]

\* lines 35-39: the load of that segment's next, then self.inner.next().
ItNx(rd, hp, cap, app) ==
    InnerNext([rd EXCEPT !.next = hp[rd.next].next], hp, cap, app)

\* ---- Reader::next_position and Reader::position ----

\* The published logical sequence holds no element greater than key.
NoneExceeds(hp, key) ==
    \A i \in 1..Len(Logical(hp, first_segment)) :
        Logical(hp, first_segment)[i] <= key

\* lines 117-118
RNextPositionCall(rd, hp, key) ==
    [ReaderInit EXCEPT !.op = "next_position", !.pc = "np_len", !.key = key,
                       !.segment = first_segment,
                       !.start_none = NoneExceeds(hp, key)]

\* A scan that tests val >= key.
RECURSIVE ScanGreaterOrEqual(_, _, _, _)
ScanGreaterOrEqual(values, len, key, pos) ==
    IF pos >= len THEN None
    ELSE IF values[pos + 1] >= key THEN Some(pos)
    ELSE ScanGreaterOrEqual(values, len, key, pos + 1)

\* lines 134-140: the first position of the slice whose value exceeds key.
RECURSIVE ScanGreater(_, _, _, _)
ScanGreater(values, len, key, pos) ==
    IF pos >= len THEN None
    ELSE IF values[pos + 1] > key THEN Some(pos)
    ELSE ScanGreater(values, len, key, pos + 1)

\* p + offset under the Option.
MapAdd(opt, offset) == IF opt = None THEN None ELSE Some(opt[1] + offset)

\* lines 120-127, 130-140: the load of len, the test of the last element of
\* the slice, and the scan of a segment that holds a greater one.
RNextPositionLen(rd, hp, cap, app) ==
    LET len == hp[rd.segment].len
        values == hp[rd.segment].values
    IN  IF len = 0
        THEN [rd EXCEPT !.pc = "done", !.segment = NULL, !.offset = 0,
                        !.result = None]
        ELSE IF values[len] <= rd.key
        THEN [rd EXCEPT !.pc = "np_next",
                        !.ok = rd.ok /\ AllOk(hp, cap, app, rd.segment, len)]
        ELSE [rd EXCEPT !.pc = "done", !.segment = NULL, !.offset = 0,
                        !.result = MapAdd(ScanGreater(values, len, rd.key, 0),
                                          rd.offset),
                        !.ok = rd.ok /\ AllOk(hp, cap, app, rd.segment, len)]

\* lines 128-129, 119, 144: the load of next and the loop test.
RNextPositionNext(rd, hp, cap, app) ==
    LET segment == hp[rd.segment].next
    IN  IF segment = NULL
        THEN [rd EXCEPT !.pc = "done", !.segment = NULL, !.offset = 0,
                        !.result = None]
        ELSE [rd EXCEPT !.pc = "np_len", !.segment = segment,
                        !.offset = rd.offset + cap]

\* History: no published element equals key when the call begins.
KeyAbsent(hp, key) ==
    \A i \in 1..Len(Logical(hp, first_segment)) :
        Logical(hp, first_segment)[i] # key

\* lines 150-151
RPositionCall(rd, hp, key) ==
    [ReaderInit EXCEPT !.op = "position", !.pc = "ps_len", !.key = key,
                       !.segment = first_segment,
                       !.start_none = KeyAbsent(hp, key)]

\* A search that drops the middle's left neighbour with the upper half.
RECURSIVE BinarySearchSkipMid(_, _, _, _)
BinarySearchSkipMid(values, key, lo, hi) ==
    IF lo >= hi THEN None
    ELSE LET mid == lo + ((hi - lo) \div 2)
         IN  IF values[mid + 1] = key THEN Some(mid)
             ELSE IF values[mid + 1] < key
                  THEN BinarySearchSkipMid(values, key, mid + 1, hi)
                  ELSE BinarySearchSkipMid(values, key, lo, mid - 1)

\* slice::binary_search over values[lo..hi): Ok(p) of a p with values[p] = key
\* (which one among equal elements is unspecified), or Err.
RECURSIVE BinarySearch(_, _, _, _)
BinarySearch(values, key, lo, hi) ==
    IF lo >= hi THEN None
    ELSE LET mid == lo + ((hi - lo) \div 2)
         IN  IF values[mid + 1] = key THEN Some(mid)
             ELSE IF values[mid + 1] < key
                  THEN BinarySearch(values, key, mid + 1, hi)
                  ELSE BinarySearch(values, key, lo, mid)

\* lines 153-160, 163-169
RPositionLen(rd, hp, cap, app) ==
    LET len == hp[rd.segment].len
        values == hp[rd.segment].values
    IN  IF len = 0
        THEN [rd EXCEPT !.pc = "done", !.segment = NULL, !.offset = 0,
                        !.result = None]
        ELSE IF values[len] < rd.key
        THEN [rd EXCEPT !.pc = "ps_next",
                        !.ok = rd.ok /\ AllOk(hp, cap, app, rd.segment, len)]
        ELSE [rd EXCEPT !.pc = "done", !.segment = NULL, !.offset = 0,
                        !.result = IF rd.key < values[1] THEN None
                                   ELSE MapAdd(BinarySearch(values, rd.key, 0, len),
                                               rd.offset),
                        !.ok = rd.ok /\ AllOk(hp, cap, app, rd.segment, len)]

\* A skip that forgets offset += segment_length.
RPositionNextNoOffset(rd, hp, cap, app) ==
    LET segment == hp[rd.segment].next
    IN  IF segment = NULL
        THEN [rd EXCEPT !.pc = "done", !.segment = NULL, !.offset = 0,
                        !.result = None]
        ELSE [rd EXCEPT !.pc = "ps_len", !.segment = segment]

\* lines 161-162, 152, 172
RPositionNext(rd, hp, cap, app) ==
    LET segment == hp[rd.segment].next
    IN  IF segment = NULL
        THEN [rd EXCEPT !.pc = "done", !.segment = NULL, !.offset = 0,
                        !.result = None]
        ELSE [rd EXCEPT !.pc = "ps_len", !.segment = segment,
                        !.offset = rd.offset + cap]

\* One step of a Reader or Iter call in progress.
RStep(rd, hp, cap, app) ==
    CASE rd.pc = "last_next" -> RLastNext(rd, hp, cap, app)
      [] rd.pc = "last_len" -> RLastLen(rd, hp, cap, app)
      [] rd.pc = "if_hop" -> RIterHop(rd, hp, cap, app)
      [] rd.pc = "if_len" -> RIterLen(rd, hp, cap, app)
      [] rd.pc = "if_next" -> RIterNext(rd, hp, cap, app)
      [] rd.pc = "it_len" -> ItLen(rd, hp, cap, app)
      [] rd.pc = "it_nx" -> ItNx(rd, hp, cap, app)
      [] rd.pc = "np_len" -> RNextPositionLen(rd, hp, cap, app)
      [] rd.pc = "np_next" -> RNextPositionNext(rd, hp, cap, app)
      [] rd.pc = "ps_len" -> RPositionLen(rd, hp, cap, app)
      [] rd.pc = "ps_next" -> RPositionNext(rd, hp, cap, app)

\* A call has returned: a Reader call, iter_from, or Iter::next.
Returned(rd) == rd.pc \in {"done", "it_idle"}

\* A whole call: its steps, run until it returns.
RECURSIVE RRun(_, _, _, _)
RRun(rd, hp, cap, app) ==
    IF Returned(rd) THEN rd ELSE RRun(RStep(rd, hp, cap, app), hp, cap, app)

last(rd, hp, cap, app) == RRun(RLastCall(rd, hp), hp, cap, app)
iter_from(rd, hp, cap, app, index) == RRun(RIterFromCall(rd, index, cap), hp, cap, app)
next(rd, hp, cap, app) == RRun(ItCall(rd, hp, cap, app), hp, cap, app)
next_position(rd, hp, cap, app, key) == RRun(RNextPositionCall(rd, hp, key), hp, cap, app)
position(rd, hp, cap, app, key) == RRun(RPositionCall(rd, hp, key), hp, cap, app)

\* An Iter consumed to its end, as by a for loop: next() until None.
RECURSIVE Consume(_, _, _, _)
Consume(rd, hp, cap, app) ==
    LET rd2 == next(rd, hp, cap, app)
    IN  IF rd2.result = None THEN rd2
        ELSE Consume([rd2 EXCEPT !.out = Append(@, rd2.result[1])], hp, cap, app)

(***************************************************************************)
(* new, and the inputs of the calls                                        *)
(***************************************************************************)

\* DropGuard::drop has not begun: the chain is allocated.
GuardInit == [pc |-> "live", segment |-> NULL]

\* new::<usize>(segment_length) has returned (line 312): usize is aligned to 8.
CtorDone == [pc |-> "ok", align |-> 8]

\* lines 255-278 of new(segment_length): the head segment, the guard and its
\* clone, a Writer whose tip and a Reader whose head are that segment.
Init ==
    /\ segment_length \in 1..MaxCap
    /\ heap = SegmentAlloc(<<>>, segment_length)
    /\ appended = <<>>
    /\ w = WriterInit
    /\ r = ReaderInit
    /\ strong = 2
    /\ handles = [writer |-> TRUE, readers |-> 1]
    /\ iters = <<>>
    /\ guard = GuardInit
    /\ calls = <<>>
    /\ ctor = CtorDone

\* The slices a caller that keeps the sequence non-decreasing may append next.
NextSlices ==
    LET lo == IF appended = <<>> THEN 1 ELSE appended[Len(appended)]
    IN  UNION {{s \in [1..n -> Values] :
                    /\ n > 0 => s[1] >= lo
                    /\ \A i \in 1..(n - 1) : s[i] <= s[i + 1]} :
               n \in 0..(MaxTotal - Len(appended))}

Keys == 0..MaxVal
Indexes == 0..(MaxTotal + 1)

(***************************************************************************)
(* Spec: one Writer and one Reader thread, interleaved at every atomic     *)
(* access.  The handles are not dropped here.                              *)
(***************************************************************************)

AppendCall ==
    /\ w.pc = "idle"
    /\ \E values \in NextSlices :
        /\ w' = WCall(w, values)
        /\ appended' = appended \o values
    /\ UNCHANGED <<calls, ctor, segment_length, heap, r, strong, handles, iters, guard>>

AppendStep ==
    /\ w.pc # "idle"
    /\ w' = WStep(w, heap, segment_length).w
    /\ heap' = WStep(w, heap, segment_length).heap
    /\ UNCHANGED <<calls, ctor, segment_length, appended, r, strong, handles, iters, guard>>

LastCall ==
    /\ Returned(r)
    /\ r' = RLastCall(r, heap)
    /\ UNCHANGED <<calls, ctor, segment_length, heap, appended, w, strong, handles, iters, guard>>

IterFromCall ==
    /\ Returned(r)
    /\ \E index \in Indexes : r' = RIterFromCall(r, index, segment_length)
    /\ UNCHANGED <<calls, ctor, segment_length, heap, appended, w, strong, handles, iters, guard>>

IterNextCall ==
    /\ r.op = "iter" /\ r.pc = "it_idle"
    /\ r' = ItCall(r, heap, segment_length, appended)
    /\ UNCHANGED <<calls, ctor, segment_length, heap, appended, w, strong, handles, iters, guard>>

NextPositionCall ==
    /\ Returned(r)
    /\ \E key \in Keys : r' = RNextPositionCall(r, heap, key)
    /\ UNCHANGED <<calls, ctor, segment_length, heap, appended, w, strong, handles, iters, guard>>

PositionCall ==
    /\ Returned(r)
    /\ \E key \in Keys : r' = RPositionCall(r, heap, key)
    /\ UNCHANGED <<calls, ctor, segment_length, heap, appended, w, strong, handles, iters, guard>>

ReaderStep ==
    /\ ~Returned(r)
    /\ r' = RStep(r, heap, segment_length, appended)
    /\ UNCHANGED <<calls, ctor, segment_length, heap, appended, w, strong, handles, iters, guard>>

Next ==
    \/ AppendCall
    \/ AppendStep
    \/ LastCall
    \/ IterFromCall
    \/ IterNextCall
    \/ NextPositionCall
    \/ PositionCall
    \/ ReaderStep

Spec == Init /\ [][Next]_vars

(***************************************************************************)
(* Claims about the interleaved specification                              *)
(***************************************************************************)

\* The segment of the chain whose next is null.
TailSegment(hp) == Chain(hp, first_segment)[Len(Chain(hp, first_segment))]

Published == Logical(heap, first_segment)

\* C1: whatever the interleaving of the writer's steps with a reader's, every
\* slot a reader reads lies below a len it loaded from that segment, the
\* slice an Iter holds ends at or below the segment's len and covers only
\* written slots, and every value read, returned or yielded is the value
\* appended at the slot's logical index.
C1_ReadsOnlyPublished ==
    /\ r.ok
    /\ r.inner_seg # NULL =>
        /\ r.inner_end <= heap[r.inner_seg].len
        /\ AllOk(heap, segment_length, appended, r.inner_seg, r.inner_end)
    /\ (r.op \in {"last", "iter"} /\ Returned(r) /\ r.result # None) =>
        /\ r.ylog < Len(appended)
        /\ r.result[1] = appended[r.ylog + 1]

\* An Iter has yielded from the segment the writer has copied into and not
\* yet published.
C1_Witness ==
    /\ w.pc = "publish"
    /\ r.op = "iter" /\ r.n > 0 /\ r.result # None
    /\ r.inner_seg = w.segment

\* C2: the j-th element an Iter from iter_from(k) yields, j = 0, 1, ..., is
\* the logical element at index k + j, whatever the interleaving.
C2_IterContiguous ==
    (r.op = "iter" /\ r.n > 0) => r.ylog = r.key + (r.n - 1)

\* C3: when next_position(key) returns index i, the element at i exceeds key
\* and every element below i is at most key; when it returns None, no
\* published element exceeded key at some moment of the call (the sequence
\* only grows, so at its start).
C3_NextPositionFirstGreater ==
    (r.op = "next_position" /\ r.pc = "done") =>
        IF r.result = None THEN r.start_none
        ELSE /\ r.result[1] < Len(Published)
             /\ Published[r.result[1] + 1] > r.key
             /\ \A j \in 1..r.result[1] : Published[j] <= r.key

\* C4: in every state, also in the middle of an append, the segment with a
\* null next is empty only if it is the head and nothing has been appended;
\* so last() returns None only when the logical sequence is empty.
C4_TailEmptyOnlyAtStart ==
    /\ heap[TailSegment(heap)].len = 0 =>
        (TailSegment(heap) = first_segment /\ Published = <<>>)
    /\ (r.op = "last" /\ r.pc = "done" /\ r.result = None) => r.start_none

(***************************************************************************)
(* SpecMem: the handles and the teardown.  Every call is taken whole; the  *)
(* Writer, the Reader clones and the Iters are created and dropped in any  *)
(* order, and the last drop runs DropGuard::drop.                          *)
(***************************************************************************)

\* Arc::clone and the drop of an Arc, on the strong count.
ArcClone(count) == count + 1
ArcDrop(count) == count - 1

\* An Iter that borrows the guard instead of holding a clone of it.
IterGuardBorrowed(count) == count

\* lines 87 and 105: the Iter's _guard is self._guard.clone().
IterGuard(count) == ArcClone(count)

\* The drop of a handle's Arc: the last one runs DropGuard::drop, which
\* starts at first_segment (line 290).
AfterArcDrop(count, g) ==
    IF ArcDrop(count) = 0 THEN [pc |-> "dropping", segment |-> first_segment]
    ELSE g

\* The values a run of SpecMem appends: the next integers, kept sorted.
MemSlices ==
    {[i \in 1..n |-> Min(Len(appended) + i, MaxVal)] :
        n \in 1..(MaxTotal - Len(appended))}

MemAppend ==
    /\ handles.writer
    /\ \E values \in MemSlices :
        /\ heap' = append(w, heap, segment_length, values).heap
        /\ w' = append(w, heap, segment_length, values).w
        /\ appended' = appended \o values
    /\ UNCHANGED <<calls, ctor, segment_length, r, strong, handles, iters, guard>>

\* #[derive(Clone)] on Reader, line 43.
MemCloneReader ==
    /\ handles.readers > 0
    /\ handles.readers < MaxReaders
    /\ handles' = [handles EXCEPT !.readers = @ + 1]
    /\ strong' = ArcClone(strong)
    /\ UNCHANGED <<calls, ctor, segment_length, heap, appended, w, r, iters, guard>>

MemDropReader ==
    /\ handles.readers > 0
    /\ handles' = [handles EXCEPT !.readers = @ - 1]
    /\ strong' = ArcDrop(strong)
    /\ guard' = AfterArcDrop(strong, guard)
    /\ UNCHANGED <<calls, ctor, segment_length, heap, appended, w, r, iters>>

MemDropWriter ==
    /\ handles.writer
    /\ handles' = [handles EXCEPT !.writer = FALSE]
    /\ strong' = ArcDrop(strong)
    /\ guard' = AfterArcDrop(strong, guard)
    /\ UNCHANGED <<calls, ctor, segment_length, heap, appended, w, r, iters>>

MemIterFrom ==
    /\ handles.readers > 0
    /\ Len(iters) < MaxIters
    /\ \E index \in Indexes :
        iters' = Append(iters,
                        iter_from(ReaderInit, heap, segment_length, appended, index))
    /\ strong' = IterGuard(strong)
    /\ UNCHANGED <<calls, ctor, segment_length, heap, appended, w, r, handles, guard>>

MemIterNext ==
    /\ \E i \in 1..Len(iters) :
        iters' = [iters EXCEPT ![i] = next(@, heap, segment_length, appended)]
    /\ UNCHANGED <<calls, ctor, segment_length, heap, appended, w, r, strong, handles, guard>>

MemDropIter ==
    /\ \E i \in 1..Len(iters) :
        iters' = SubSeq(iters, 1, i - 1) \o SubSeq(iters, i + 1, Len(iters))
    /\ strong' = ArcDrop(strong)
    /\ guard' = AfterArcDrop(strong, guard)
    /\ UNCHANGED <<calls, ctor, segment_length, heap, appended, w, r, handles>>

\* A walk that stops after the head segment.
GuardNextNull(hp, segment) == NULL

\* line 294: segment = r.next.load().
GuardNext(hp, segment) == hp[segment].next

\* lines 291-296: one turn of DropGuard::drop's loop frees the segment's
\* buffer (Segment::dealloc, line 241) and then its Box.
GuardDropStep ==
    /\ guard.pc = "dropping"
    /\ guard.segment # NULL
    /\ heap' = [heap EXCEPT ![guard.segment].buf_frees = @ + 1,
                            ![guard.segment].node_frees = @ + 1]
    /\ guard' = [guard EXCEPT !.segment = GuardNext(heap, guard.segment)]
    /\ UNCHANGED <<calls, ctor, segment_length, appended, w, r, strong, handles, iters>>

\* line 291: the loop ends at the null next.
GuardDropEnd ==
    /\ guard.pc = "dropping"
    /\ guard.segment = NULL
    /\ guard' = [guard EXCEPT !.pc = "dropped"]
    /\ UNCHANGED <<calls, ctor, segment_length, heap, appended, w, r, strong, handles, iters>>

NextMem ==
    \/ MemAppend
    \/ MemCloneReader
    \/ MemDropReader
    \/ MemDropWriter
    \/ MemIterFrom
    \/ MemIterNext
    \/ MemDropIter
    \/ GuardDropStep
    \/ GuardDropEnd

SpecMem == Init /\ [][NextMem]_vars

HandleAlive == handles.writer \/ handles.readers > 0 \/ Len(iters) > 0

Freed(s) == heap[s].buf_frees > 0 \/ heap[s].node_frees > 0

\* C5: while the Writer, a Reader clone or an Iter exists, no segment's
\* buffer or node is deallocated, whatever the order of cloning, iterator
\* creation and dropping; the segments an Iter points to, and those before
\* them, are allocated even when the Writer and every Reader are gone.
C5_NoFreeWhileHandleAlive ==
    HandleAlive =>
        /\ guard.pc = "live"
        /\ \A s \in 1..Len(heap) : ~Freed(s)

\* An Iter past the head segment outlives the Writer and every Reader.
C5_Witness ==
    /\ ~handles.writer /\ handles.readers = 0
    /\ \E i \in 1..Len(iters) : iters[i].inner_seg > first_segment /\ iters[i].n > 0

\* C6: when the last handle is dropped the teardown runs, and after it every
\* segment ever allocated has had its buffer and its node freed exactly once;
\* no segment is ever freed twice.
C6_AllFreedExactlyOnce ==
    /\ ~HandleAlive => guard.pc # "live"
    /\ \A s \in 1..Len(heap) : heap[s].buf_frees <= 1 /\ heap[s].node_frees <= 1
    /\ guard.pc = "dropped" =>
        \A s \in 1..Len(heap) : heap[s].buf_frees = 1 /\ heap[s].node_frees = 1

\* The teardown of a chain of several segments has ended.
C6_Witness == guard.pc = "dropped" /\ Len(heap) >= 2

(***************************************************************************)
(* SpecSeq: no append is in progress when a Reader is called.  Every call  *)
(* is taken whole; r holds the latest call and what it returned, and is    *)
(* forgotten at the next append.                                           *)
(***************************************************************************)

SeqAppend ==
    /\ \E values \in NextSlices :
        /\ heap' = append(w, heap, segment_length, values).heap
        /\ w' = append(w, heap, segment_length, values).w
        /\ appended' = appended \o values
    /\ r' = ReaderInit
    /\ UNCHANGED <<calls, ctor, segment_length, strong, handles, iters, guard>>

SeqLast ==
    /\ r' = last(r, heap, segment_length, appended)
    /\ UNCHANGED <<calls, ctor, segment_length, heap, appended, w, strong, handles, iters, guard>>

SeqPosition ==
    /\ \E key \in Keys : r' = position(r, heap, segment_length, appended, key)
    /\ UNCHANGED <<calls, ctor, segment_length, heap, appended, w, strong, handles, iters, guard>>

SeqNextPosition ==
    /\ \E key \in Keys : r' = next_position(r, heap, segment_length, appended, key)
    /\ UNCHANGED <<calls, ctor, segment_length, heap, appended, w, strong, handles, iters, guard>>

SeqIterFrom ==
    /\ \E index \in Indexes :
        r' = Consume(iter_from(r, heap, segment_length, appended, index),
                     heap, segment_length, appended)
    /\ UNCHANGED <<calls, ctor, segment_length, heap, appended, w, strong, handles, iters, guard>>

NextSeq ==
    \/ SeqAppend
    \/ SeqLast
    \/ SeqPosition
    \/ SeqNextPosition
    \/ SeqIterFrom

SpecSeq == Init /\ [][NextSeq]_vars

\* The logical indexes whose element satisfies a test against key.
IndexesOf(key) == {i \in 0..(Len(appended) - 1) : appended[i + 1] = key}
IndexesAbove(key) == {i \in 0..(Len(appended) - 1) : appended[i + 1] > key}

\* C7: with no append in progress, position(v) returns an index whose element
\* equals v for every v of the sequence, and None for every v not in it, the
\* empty structure included, whatever the chunking and the capacity.
C7_PositionFindsKey ==
    r.op = "position" =>
        IF IndexesOf(r.key) = {} THEN r.result = None
        ELSE r.result # None /\ r.result[1] \in IndexesOf(r.key)

\* position found its key in a segment after the head.
C7_Witness ==
    /\ r.op = "position" /\ r.result # None
    /\ r.result[1] >= segment_length

\* C8: with no append in progress, next_position(key) returns the smallest
\* logical index whose element exceeds key, and None exactly when no
\* appended element exceeds key.
C8_NextPositionSmallestGreater ==
    r.op = "next_position" =>
        IF IndexesAbove(r.key) = {} THEN r.result = None
        ELSE /\ r.result # None
             /\ r.result[1] \in IndexesAbove(r.key)
             /\ \A i \in IndexesAbove(r.key) : r.result[1] <= i

\* next_position passed a segment and elements equal to key.
C8_Witness ==
    /\ r.op = "next_position" /\ r.result # None
    /\ r.result[1] >= segment_length
    /\ IndexesOf(r.key) # {}

\* C9: after every completed append of a non-empty slice last() returns the
\* final element of that slice, and before any element is appended it
\* returns None.
C9_LastIsFinalElement ==
    r.op = "last" =>
        r.result = IF appended = <<>> THEN None
                   ELSE Some(appended[Len(appended)])

\* last() read a tip segment, after the head, that the append filled exactly.
C9_Witness ==
    /\ r.op = "last" /\ r.result # None
    /\ Len(heap) >= 2
    /\ heap[TailSegment(heap)].len = segment_length

\* C10: with no append in progress and a sequence of length n, iter_from(k)
\* consumed to its end yields the elements at k, k+1, ..., n-1 in order, and
\* nothing when k >= n.
C10_IterFromYieldsSuffix ==
    r.op = "iter" => r.out = SubSeq(appended, r.key + 1, Len(appended))

\* An Iter from inside the sequence yielded across a segment boundary.
C10_Witness ==
    /\ r.op = "iter" /\ r.key > 0
    /\ Len(r.out) >= 2
    /\ r.inner_seg > first_segment

(***************************************************************************)
(* SpecChunk: a sequence appended in chunks, one whole call per chunk; the *)
(* history calls keeps the chunks' lengths.                                *)
(***************************************************************************)

ChunkAppend ==
    /\ Len(calls) < MaxCalls
    /\ \E values \in NextSlices :
        /\ heap' = append(w, heap, segment_length, values).heap
        /\ w' = append(w, heap, segment_length, values).w
        /\ appended' = appended \o values
        /\ calls' = Append(calls, Len(values))
    /\ UNCHANGED <<ctor, segment_length, r, strong, handles, iters, guard>>

NextChunk == ChunkAppend

SpecChunk == Init /\ [][NextChunk]_vars

\* The chain after one append of the whole sequence to a new structure.
WholeAppend ==
    append(WriterInit, SegmentAlloc(<<>>, segment_length), segment_length, appended)

\* The number of elements appended before call j.
RECURSIVE CallStart(_)
CallStart(j) == IF j <= 1 THEN 0 ELSE CallStart(j - 1) + calls[j - 1]

\* Call j wrote into more than one segment.
CrossesBoundary(j) ==
    /\ calls[j] > 0
    /\ CallStart(j) \div segment_length
         # (CallStart(j) + calls[j] - 1) \div segment_length

\* C11: however a sequence is split into chunks (single elements, multiples
\* of the capacity, chunks crossing segment boundaries, empty chunks),
\* appending the chunks one call at a time leaves the chain as one append of
\* the whole sequence does, segment by segment, so that position,
\* next_position, last and iter_from return the same.
C11_ChunkingIrrelevant ==
    /\ heap = WholeAppend.heap
    /\ w = WholeAppend.w
    /\ \A key \in Keys :
        /\ position(ReaderInit, heap, segment_length, appended, key).result
             = position(ReaderInit, WholeAppend.heap, segment_length, appended, key).result
        /\ next_position(ReaderInit, heap, segment_length, appended, key).result
             = next_position(ReaderInit, WholeAppend.heap, segment_length, appended, key).result
    /\ last(ReaderInit, heap, segment_length, appended).result
         = last(ReaderInit, WholeAppend.heap, segment_length, appended).result
    /\ \A index \in Indexes :
        Consume(iter_from(ReaderInit, heap, segment_length, appended, index),
                heap, segment_length, appended).out
          = Consume(iter_from(ReaderInit, WholeAppend.heap, segment_length, appended, index),
                    WholeAppend.heap, segment_length, appended).out

\* Three calls were made, one of an empty chunk and one of a chunk that
\* crosses a segment boundary.
C11_Witness ==
    /\ Len(calls) >= 3
    /\ \E j \in 1..Len(calls) : calls[j] = 0
    /\ \E j \in 1..Len(calls) : CrossesBoundary(j)
    /\ Len(heap) >= 3

(***************************************************************************)
(* SpecNew: the call new::<T>(segment_length), for every capacity and      *)
(* every alignment of T, and appends to the structure it returns.          *)
(***************************************************************************)

\* align_of::<T>() is a power of two.
Aligns == {2 ^ e : e \in 0..MaxAlignExp}

\* lines 246-248: the three assertions of new.
NewAsserts(cap, align) ==
    /\ cap > 0
    /\ align < ALIGNMENT
    /\ ALIGNMENT % align = 0

InitNew ==
    /\ segment_length \in 0..MaxCap
    /\ ctor \in [pc : {"call"}, align : Aligns]
    /\ heap = <<>>
    /\ appended = <<>>
    /\ w = WriterInit
    /\ r = ReaderInit
    /\ strong = 0
    /\ handles = [writer |-> FALSE, readers |-> 0]
    /\ iters = <<>>
    /\ guard = GuardInit
    /\ calls = <<>>

\* lines 245-280: a failed assertion panics before anything is allocated;
\* otherwise the head segment, the guard and the two handles are made.
NewCall ==
    /\ ctor.pc = "call"
    /\ IF NewAsserts(segment_length, ctor.align)
       THEN /\ ctor' = [ctor EXCEPT !.pc = "ok"]
            /\ heap' = SegmentAlloc(<<>>, segment_length)
            /\ strong' = 2
            /\ handles' = [writer |-> TRUE, readers |-> 1]
       ELSE /\ ctor' = [ctor EXCEPT !.pc = "panic"]
            /\ UNCHANGED <<heap, strong, handles>>
    /\ UNCHANGED <<calls, segment_length, appended, w, r, iters, guard>>

NewAppend ==
    /\ ctor.pc = "ok"
    /\ SeqAppend

NextNew ==
    \/ NewCall
    \/ NewAppend

SpecNew == InitNew /\ [][NextNew]_vars

\* C12: new(segment_capacity) returns a Writer and a Reader whenever
\* segment_capacity > 0 and the element's alignment is at most 64 and divides
\* 64 (64 itself included), and panics, returning no handle, in every other
\* case.
C12_NewAcceptsAlignments ==
    ctor.pc # "call" =>
        /\ ctor.pc = "ok" <=>
             (/\ segment_length > 0
              /\ ctor.align <= ALIGNMENT
              /\ ALIGNMENT % ctor.align = 0)
        /\ ctor.pc = "ok" => (handles.writer /\ handles.readers = 1)
        /\ ctor.pc = "panic" => ~HandleAlive

(***************************************************************************)
(* Claims about the chain of segments in the middle of append calls.       *)
(***************************************************************************)

IsPrefix(a, b) == Len(a) <= Len(b) /\ SubSeq(b, 1, Len(a)) = a

\* C13: across every step the published logical sequence only grows: no
\* segment's len decreases, a next pointer once non-null never changes, and
\* the value at a published index is never changed by a later step.
C13_AppendOnly ==
    [][/\ Len(heap') >= Len(heap)
       /\ \A s \in 1..Len(heap) :
            /\ heap'[s].len >= heap[s].len
            /\ heap[s].next # NULL => heap'[s].next = heap[s].next
            /\ \A i \in 1..heap[s].len : heap'[s].values[i] = heap[s].values[i]
       /\ IsPrefix(Published, Logical(heap', first_segment))]_vars

\* An append is under way behind published elements and a linked successor.
C13_Witness ==
    /\ Len(heap) >= 3
    /\ heap[first_segment].next # NULL
    /\ Len(Published) >= 3
    /\ w.pc = "publish"

\* C14: in every reachable state, the middle of an append included, every
\* segment with a non-null next has len = segment_length; only the segment
\* with a null next may be partially filled.
C14_NonTailSegmentsFull ==
    \A s \in 1..Len(heap) :
        /\ heap[s].next # NULL => heap[s].len = segment_length
        /\ heap[s].len < segment_length => heap[s].next = NULL

\* The writer is about to copy into a partially filled tail behind a full,
\* linked segment.
C14_Witness ==
    /\ heap[first_segment].next # NULL
    /\ heap[TailSegment(heap)].len > 0
    /\ heap[TailSegment(heap)].len < segment_length
    /\ w.pc = "copy"

\* C15: when position(key) runs concurrently with appends of a
\* non-decreasing sequence, an index it returns holds an element equal to
\* key, and if key was already published when the call began the call
\* returns an index, never None.
C15_PositionConcurrent ==
    (r.op = "position" /\ r.pc = "done") =>
        /\ r.result # None =>
             /\ r.result[1] < Len(Published)
             /\ Published[r.result[1] + 1] = r.key
             /\ appended[r.result[1] + 1] = r.key
        /\ ~r.start_none => r.result # None

\* During an append, position returned an index beyond the head segment for
\* a key that was already published when the call began.
C15_Witness ==
    /\ r.op = "position" /\ r.pc = "done"
    /\ w.pc # "idle"
    /\ ~r.start_none
    /\ r.result # None
    /\ r.result[1] >= segment_length

\* C16: the Writer's stored tip_segment advances along the chain: after
\* every completed append call it is the segment with a null next, the last
\* one the call wrote into.
C16_TipSegmentAtTail ==
    (w.pc = "idle" /\ appended # <<>>) => w.tip_segment = TailSegment(heap)

\* C17: once an Iter's next() has returned None, every later next() on the
\* same Iter returns None too, whatever the writer appends or links before
\* or after, in every interleaving.
C17_IterStaysEnded ==
    (r.op = "iter" /\ r.pc = "it_idle" /\ r.ended) => r.result = None

(***************************************************************************)
(* SpecPartial: append calls, their lengths recorded in calls, run step by *)
(* step against a reader's last().                                         *)
(***************************************************************************)

PartialAppendCall ==
    /\ w.pc = "idle"
    /\ Len(calls) < MaxPartialCalls
    /\ \E values \in NextSlices :
        /\ w' = WCall(w, values)
        /\ appended' = appended \o values
        /\ calls' = Append(calls, Len(values))
    /\ UNCHANGED <<ctor, segment_length, heap, r, strong, handles, iters, guard>>

NextPartial ==
    \/ PartialAppendCall
    \/ AppendStep
    \/ LastCall
    \/ ReaderStep

SpecPartial == Init /\ [][NextPartial]_vars

\* Logical index of the first element of the latest append call.
CurrentStart == CallStart(Len(calls))

\* C18: an append of several elements is not atomic for readers; what is
\* visible of the call in progress is always a prefix of its slice: every
\* earlier call is wholly published, the published sequence is a prefix of
\* what was passed to append, and an element last() returns is a published
\* one.
C18_PartialAppendIsPrefix ==
    calls # <<>> =>
        /\ IsPrefix(Published, appended)
        /\ CurrentStart <= Len(Published)
        /\ Len(Published) <= CurrentStart + calls[Len(calls)]
        /\ (r.op = "last" /\ r.pc = "done" /\ r.result # None) =>
             /\ r.ylog < Len(Published)
             /\ r.result[1] = appended[r.ylog + 1]

\* In the middle of one append call that crosses a segment boundary, last()
\* has returned an element of that call that is not the call's final one.
C18_Witness ==
    /\ calls # <<>>
    /\ w.pc # "idle"
    /\ CrossesBoundary(Len(calls))
    /\ r.op = "last" /\ r.pc = "done" /\ r.result # None
    /\ r.ylog >= CurrentStart
    /\ r.ylog < CurrentStart + calls[Len(calls)] - 1
    /\ Len(Published) < Len(appended)

(***************************************************************************)
(* SpecFair: the steps of Spec, with fairness for the reader's steps only: *)
(* the writer may stop for ever at any point of an append.                 *)
(***************************************************************************)

SpecFair == Init /\ [][Next]_vars /\ WF_vars(ReaderStep)

\* The segment a call in progress is looking at.
RankSegment(rd) == IF rd.pc \in {"it_len", "it_nx"} THEN rd.next ELSE rd.segment

\* Atomic loads a call still has to do at the segment it is looking at,
\* beyond the last one.
Phase(pc) ==
    CASE pc = "if_hop" -> 2
      [] pc \in {"last_next", "ps_len", "np_len", "if_len", "it_len"} -> 1
      [] OTHER -> 0

\* A bound on the steps a call in progress has left: two loads for each
\* segment from the one it looks at to the end of the chain.
Rank(rd, hp) ==
    IF Returned(rd) THEN 0
    ELSE 2 * Len(Chain(hp, RankSegment(rd))) + Phase(rd.pc)

\* C19: no reader operation waits on the writer: with the writer stopped at
\* any point of an append, every started last, position, next_position,
\* iter_from and Iter::next call completes under fairness of the reader
\* alone (a call in progress always returns: the reader is in the returned
\* state infinitely often), in a number of steps bounded by the number of
\* segments linked: the call's own next step always lowers a rank that is at
\* most two per linked segment, plus two.
C19_ReadersNeverWait ==
    /\ []<>Returned(r)
    /\ [](Rank(r, heap) <= 2 * Len(Chain(heap, first_segment)) + 2)
    /\ [](~Returned(r) =>
            Rank(RStep(r, heap, segment_length, appended), heap) < Rank(r, heap))

\* The writer stands after linking an empty segment and copying into it,
\* before advancing its len, and a last() has returned.
C19_Witness ==
    /\ w.pc = "publish"
    /\ heap[first_segment].next # NULL
    /\ heap[TailSegment(heap)].len = 0
    /\ r.op = "last" /\ r.pc = "done"

====
